---- MODULE Spec2Model ----
(***************************************************************************)
(* The AR try-on session of src/main.js: entering and leaving AR mode,     *)
(* the frame feeder started by startPoseDetection, the per-frame handler   *)
(* onPoseResults with its landmark validation, foot selection, status,     *)
(* overlay drawing and shoe placement.                                     *)
(*                                                                         *)
(* Number encoding.  Landmark coordinates and visibilities are decimal     *)
(* fractions: x, y are kept in hundredths (0.55 is 55), visibility in      *)
(* tenths (0.5 is 5).  Object-space positions are kept in thousandths,     *)
(* the uniform scale in ten-thousandths, angles about Y in milliradians.   *)
(* The rotation about Z is the term -atan2(dy, dx), kept as its two        *)
(* arguments (in hundredths).                                              *)
(***************************************************************************)
EXTENDS Integers, Sequences, FiniteSets, TLC

VARIABLES
    isARMode,        \* let isARMode
    videoStream,     \* let videoStream: 0 is null, otherwise the stream's id
    srcObject,       \* arVideo.srcObject: 0 is none, otherwise the stream's id
    liveStreams,     \* streams handed out by getUserMedia whose tracks run
    acquired,        \* number of streams getUserMedia has handed out
    videoSize,       \* arVideo.videoWidth/videoHeight, <<0, 0>> before metadata
    canvasSize,      \* width/height of arOverlayCanvas and ar3DCanvas
    loadedModel,     \* let loadedModel (the FBX object), NoObject before load
    sceneReady,      \* arScene, arCamera and arRenderer exist
    arShoeModel,     \* let arShoeModel, NoObject while null
    status,          \* #ar-status: textContent and the type in its class
    overlay,         \* what is drawn on arOverlayCanvas
    canvas3D,        \* what is drawn on ar3DCanvas
    awaitingCamera,  \* enterARMode calls suspended in getUserMedia
    metaPending,     \* an enterARMode call waits in arVideo.onloadedmetadata
    hungEntries,     \* enterARMode calls whose onloadedmetadata was replaced
    resizeTimers,    \* pending setTimeout(resizeARCanvases, 100)
    feeders,         \* Camera objects by position: starting, idle, sending
    lastOp,          \* the handler that ran last
    lastFrame,       \* the results object the last onPoseResults call got
    frameLog,        \* what the last onPoseResults call did
    hist,            \* what the run has seen before, kept by runs that record it
    opLog,           \* the steps the last handler took, in order, where kept
    captureTimers,   \* pending timers of captureARPhoto
    export           \* the export button, the controls and the pair of shoes of exportToPNG

vars == <<isARMode, videoStream, srcObject, liveStreams, acquired, videoSize,
          canvasSize, loadedModel, sceneReady, arShoeModel, status, overlay,
          canvas3D, awaitingCamera, metaPending, hungEntries, resizeTimers,
          feeders, lastOp, lastFrame, frameLog, hist, opLog, captureTimers, export>>

-----------------------------------------------------------------------------
(* Bounds of the model *)

\* streams getUserMedia hands out in one run; every enterARMode call that
\* gets past the camera request takes one
MaxStreams == 2

\* timers of captureARPhoto that are pending at the same time
MaxCaptures == 1

\* the same bound in the runs that deliver every frame of Frames
FrameStreams == 1

-----------------------------------------------------------------------------
(* Program constants *)

MinLandmarks == 33          \* results.poseLandmarks.length >= 33
LEFT_ANKLE == 27
RIGHT_ANKLE == 28
LEFT_HEEL == 29
RIGHT_HEEL == 30
LEFT_FOOT_INDEX == 31
RIGHT_FOOT_INDEX == 32
VisThreshold == 5           \* visibility > 0.5
GoodCount == 2              \* at least 2 landmarks per foot
MapScale == 6               \* (footCenterX - 0.5) * 6
ForwardOffsetTenths == 2    \* footForwardOffset = 0.2
DepthZ == -2000             \* finalZ = -2
PiMilli == 3142             \* Math.PI
ScaleGain == 2              \* footLength * 2
MinScale == 500             \* Math.max(0.05, ...)
MaxScale == 1500            \* Math.min(0.15, ...)
ARInitScale == 1000         \* arShoeModel.scale.set(0.1, 0.1, 0.1)
ExportScale == 2500         \* exportScale = 0.25
ExportOffsetX == 1000       \* loadedModel.position.set(-1.0, 0, 0)
ExportAngle == 150          \* loadedModel.rotation.y = -0.15
LoadScale == 3600           \* object.scale.set(0.36, 0.36, 0.36)

FootIndices == LEFT_ANKLE..RIGHT_FOOT_INDEX

-----------------------------------------------------------------------------
(* Values *)

Undefined == [undefined |-> TRUE]      \* landmarks[i] past the end of the list
Null == [null |-> TRUE]                \* a validated landmark that is absent
NoObject == [object |-> FALSE]         \* a null object reference
NoResults == [len |-> -1, lm |-> <<>>] \* results.poseLandmarks is undefined

St(message, type) == [message |-> message, type |-> type]

StRequesting == St("Requesting camera permission...", "detecting")
StLookingForFeet == St("Looking for feet...", "detecting")
StReset == St("Looking for feet...", "")
StLocked == St("Shoe positioned! Try moving your foot", "success")
StPartial == St("Feet detected - show ankle and toes clearly", "detecting")
StPoseFound == St("Point camera at your feet - move closer", "detecting")
StSearching == St("Looking for pose...", "detecting")
StNotAllowed == St("Camera permission denied. Please enable camera access.", "error")
StNotFound == St("No camera found. Please connect a camera.", "error")
StCameraError == St("Camera error. Please try again.", "error")
StCameraStart == St("Camera error - try refreshing", "error")
StInitial == St("", "")
StCaptured == St("Photo captured!", "success")       \* the message after its emoji
StFeetDetected == St("Feet detected!", "success")    \* the message before its emoji

ErrorNames == {"NotAllowedError", "NotFoundError", "OverconstrainedError"}

-----------------------------------------------------------------------------
(* The frames the pose engine delivers: a bounded set of results objects.   *)
(* A frame is the length of results.poseLandmarks (-1: no list) and the     *)
(* entries 27..32 that the list holds.                                      *)

\* Three layouts of the six foot landmarks.  Layout 1 has the right foot of
\* the end-to-end scenario, ankle (0.5, 0.6) and toe (0.55, 0.62), and a left foot
\* (0.3, 0.5)-(0.4, 0.5); an undetected landmark carries visibility 0.5.
\* Layout 2 has a long right foot and a left foot of length zero; an
\* undetected landmark carries no visibility field.  Layout 3 is layout 1
\* with visibility 0.2 on the undetected landmarks.

Coord(i, layout) ==
    IF layout # 2
    THEN CASE i = LEFT_ANKLE       -> <<30, 50, 6>>
           [] i = RIGHT_ANKLE      -> <<50, 60, 9>>
           [] i = LEFT_HEEL        -> <<28, 52, 6>>
           [] i = RIGHT_HEEL       -> <<48, 62, 7>>
           [] i = LEFT_FOOT_INDEX  -> <<40, 50, 6>>
           [] i = RIGHT_FOOT_INDEX -> <<55, 62, 8>>
    ELSE CASE i = LEFT_ANKLE       -> <<50, 60, 10>>
           [] i = RIGHT_ANKLE      -> <<30, 50, 6>>
           [] i = LEFT_HEEL        -> <<50, 62, 6>>
           [] i = RIGHT_HEEL       -> <<28, 52, 6>>
           [] i = LEFT_FOOT_INDEX  -> <<50, 60, 10>>
           [] i = RIGHT_FOOT_INDEX -> <<40, 50, 6>>

Landmark(i, seen, layout) ==
    LET c == Coord(i, layout) IN
    IF seen THEN [x |-> c[1], y |-> c[2], visibility |-> c[3]]
    ELSE IF layout = 1 THEN [x |-> c[1], y |-> c[2], visibility |-> 5]
    ELSE IF layout = 3 THEN [x |-> c[1], y |-> c[2], visibility |-> 2]
    ELSE [x |-> c[1], y |-> c[2]]

MkFrame(len, seen, layout) ==
    [len |-> len,
     lm  |-> [i \in {j \in FootIndices : j < len} |-> Landmark(i, i \in seen, layout)]]

Frames ==
    {NoResults}
    \cup {MkFrame(MinLandmarks, seen, 1) : seen \in SUBSET FootIndices}
    \cup {MkFrame(MinLandmarks, seen, 2) :
             seen \in {{}, FootIndices, {RIGHT_ANKLE, RIGHT_FOOT_INDEX},
                       {LEFT_ANKLE, LEFT_FOOT_INDEX}, {LEFT_ANKLE, LEFT_HEEL},
                       {RIGHT_HEEL, RIGHT_FOOT_INDEX}, {LEFT_FOOT_INDEX}}}
    \cup {MkFrame(MinLandmarks, seen, 3) :
             seen \in {{}, {RIGHT_ANKLE, RIGHT_FOOT_INDEX}, {LEFT_HEEL, LEFT_FOOT_INDEX}}}
    \cup {MkFrame(0, {}, 1), MkFrame(MinLandmarks - 1, FootIndices, 1)}
    \cup {MkFrame(MinLandmarks + 1, seen, 1) :
             seen \in {{}, FootIndices, {RIGHT_ANKLE, RIGHT_FOOT_INDEX},
                       {LEFT_ANKLE, LEFT_HEEL}}}

-----------------------------------------------------------------------------
(* onPoseResults: landmark validation and foot selection *)

\* landmarks[i]
At(frame, i) == IF i \in DOMAIN frame.lm THEN frame.lm[i] ELSE Undefined

\* VisibleEnough with >= for > (0.5 itself passes)
VisibleEnoughInclusive(l) ==
    /\ l # Undefined
    /\ "visibility" \in DOMAIN l
    /\ l.visibility >= VisThreshold

\* landmarks[i]?.visibility > 0.5 ; undefined > 0.5 is false
VisibleEnough(l) ==
    /\ l # Undefined
    /\ "visibility" \in DOMAIN l
    /\ l.visibility > VisThreshold

\* landmarks[i]?.visibility > 0.5 ? landmarks[i] : null
Validate(frame, i) ==
    IF VisibleEnough(At(frame, i)) THEN At(frame, i) ELSE Null

\* HasPose with an off-by-one length test
HasPoseShort(frame) == frame.len # -1 /\ frame.len >= MinLandmarks - 1

\* results.poseLandmarks && results.poseLandmarks.length >= 33
HasPose(frame) == frame.len # -1 /\ frame.len >= MinLandmarks

\* [a, b, c].filter(Boolean).length
CountPresent(ls) == Cardinality({k \in DOMAIN ls : ls[k] # Null})

\* HasGoodFoot with > for >=
HasGoodFootStrict(ankle, heel, footIndex) ==
    CountPresent(<<ankle, heel, footIndex>>) > GoodCount

\* hasGoodLeftFoot / hasGoodRightFoot
HasGoodFoot(ankle, heel, footIndex) ==
    CountPresent(<<ankle, heel, footIndex>>) >= GoodCount

\* hasCompleteRightFoot / hasCompleteLeftFoot: ankle && footIndex
HasCompleteFoot(ankle, footIndex) == ankle # Null /\ footIndex # Null

-----------------------------------------------------------------------------
(* positionARShoe *)

RECURSIVE SqrtSearch(_, _, _)
\* the largest r in lo..hi with r * r <= n
SqrtSearch(n, lo, hi) ==
    IF lo >= hi THEN lo
    ELSE LET mid == (lo + hi + 1) \div 2 IN
         IF mid * mid <= n THEN SqrtSearch(n, mid, hi)
         ELSE SqrtSearch(n, lo, mid - 1)

\* Math.sqrt on a value in 1e-8 units, giving 1e-4 units, rounded down
Sqrt(n) == SqrtSearch(n, 0, 20000)

Min(a, b) == IF a < b THEN a ELSE b
Max(a, b) == IF a > b THEN a ELSE b

\* SelectFoot with the two tests in the other order
SelectFootLeftFirst(leftAnkle, rightAnkle, leftFootIndex, rightFootIndex) ==
    IF leftAnkle # Null /\ leftFootIndex # Null
    THEN [ankle |-> leftAnkle, footIndex |-> leftFootIndex, isLeftFoot |-> TRUE]
    ELSE IF rightAnkle # Null /\ rightFootIndex # Null
    THEN [ankle |-> rightAnkle, footIndex |-> rightFootIndex, isLeftFoot |-> FALSE]
    ELSE [ankle |-> Null, footIndex |-> Null, isLeftFoot |-> FALSE]

\* Prefer right foot, but use left if right is not available
SelectFoot(leftAnkle, rightAnkle, leftFootIndex, rightFootIndex) ==
    IF rightAnkle # Null /\ rightFootIndex # Null
    THEN [ankle |-> rightAnkle, footIndex |-> rightFootIndex, isLeftFoot |-> FALSE]
    ELSE IF leftAnkle # Null /\ leftFootIndex # Null
    THEN [ankle |-> leftAnkle, footIndex |-> leftFootIndex, isLeftFoot |-> TRUE]
    ELSE [ankle |-> Null, footIndex |-> Null, isLeftFoot |-> FALSE]

\* finalX, finalY, finalZ in thousandths
FinalPosition(ankle, footIndex) ==
    LET screenX == 5 * MapScale * (ankle.x + footIndex.x) - 500 * MapScale
        screenY == -(5 * MapScale * (ankle.y + footIndex.y) - 500 * MapScale)
        offsetX == (footIndex.x - ankle.x) * ForwardOffsetTenths
        offsetY == -(footIndex.y - ankle.y) * ForwardOffsetTenths
    IN  <<screenX + offsetX, screenY + offsetY, DepthZ>>

\* FootRotation without the flip for the left foot
FootRotationNoMirror(ankle, footIndex, isLeftFoot) ==
    [x |-> 0,
     y |-> 0,
     z |-> [negAtan2 |-> <<footIndex.y - ankle.y, footIndex.x - ankle.x>>]]

\* rotation.set(0, 0, -footAngle), then rotation.y = isLeftFoot ? Math.PI : 0
FootRotation(ankle, footIndex, isLeftFoot) ==
    [x |-> 0,
     y |-> IF isLeftFoot THEN PiMilli ELSE 0,
     z |-> [negAtan2 |-> <<footIndex.y - ankle.y, footIndex.x - ankle.x>>]]

\* FootLength as the sum of the two coordinate differences
FootLengthTaxicab(ankle, footIndex) ==
    100 * (Max(footIndex.x - ankle.x, ankle.x - footIndex.x)
           + Max(footIndex.y - ankle.y, ankle.y - footIndex.y))

\* footLength in ten-thousandths
FootLength(ankle, footIndex) ==
    Sqrt(10000 * ((footIndex.x - ankle.x) * (footIndex.x - ankle.x)
                  + (footIndex.y - ankle.y) * (footIndex.y - ankle.y)))

\* DynamicScale without the limits
DynamicScaleUnclamped(ankle, footIndex) == FootLength(ankle, footIndex) * ScaleGain

\* Math.max(0.05, Math.min(0.15, footLength * 2))
DynamicScale(ankle, footIndex) ==
    Max(MinScale, Min(MaxScale, FootLength(ankle, footIndex) * ScaleGain))

\* PositionARShoe that keeps the scale of a shoe that is already shown
PositionARShoeSticky(shoe, haveCamera, leftAnkle, rightAnkle, leftFootIndex, rightFootIndex) ==
    IF shoe = NoObject \/ ~haveCamera THEN shoe
    ELSE LET sel == SelectFoot(leftAnkle, rightAnkle, leftFootIndex, rightFootIndex) IN
         IF sel.ankle # Null /\ sel.footIndex # Null
         THEN [object   |-> TRUE,
               visible  |-> TRUE,
               position |-> FinalPosition(sel.ankle, sel.footIndex),
               rotation |-> FootRotation(sel.ankle, sel.footIndex, sel.isLeftFoot),
               scale    |-> IF shoe.visible THEN shoe.scale
                            ELSE DynamicScale(sel.ankle, sel.footIndex)]
         ELSE [shoe EXCEPT !.visible = FALSE]

\* the new value of arShoeModel
PositionARShoe(shoe, haveCamera, leftAnkle, rightAnkle, leftFootIndex, rightFootIndex) ==
    IF shoe = NoObject \/ ~haveCamera THEN shoe
    ELSE LET sel == SelectFoot(leftAnkle, rightAnkle, leftFootIndex, rightFootIndex) IN
         IF sel.ankle # Null /\ sel.footIndex # Null
         THEN [object   |-> TRUE,
               visible  |-> TRUE,
               position |-> FinalPosition(sel.ankle, sel.footIndex),
               rotation |-> FootRotation(sel.ankle, sel.footIndex, sel.isLeftFoot),
               scale    |-> DynamicScale(sel.ankle, sel.footIndex)]
         ELSE [shoe EXCEPT !.visible = FALSE]

\* arShoeModel.visible = false, guarded by if (arShoeModel)
HideShoe(shoe) == IF shoe = NoObject THEN shoe ELSE [shoe EXCEPT !.visible = FALSE]

-----------------------------------------------------------------------------
(* The overlay canvas: the points, lines and hints drawn on it *)

BlankOverlay == [points |-> {}, lines |-> {}, hints |-> {}]

\* drawFootPoint at (landmark.x * canvasWidth, landmark.y * canvasHeight),
\* in hundredths of a pixel
FootPoint(label, l, size) == [label |-> label, x |-> l.x * size[1], y |-> l.y * size[2]]

\* drawFootConnection
FootConnection(side, ankle, footIndex, size) ==
    [side |-> side,
     from |-> <<ankle.x * size[1], ankle.y * size[2]>>,
     to   |-> <<footIndex.x * size[1], footIndex.y * size[2]>>]

\* drawFootIndicators that looks at the left side first for the line
DrawFootIndicatorsLeftFirst(ov, size, leftAnkle, rightAnkle, leftFootIndex, rightFootIndex) ==
    [ov EXCEPT
       !.points = @ \cup
           (IF leftAnkle # Null THEN {FootPoint("L-ankle", leftAnkle, size)} ELSE {})
           \cup (IF rightAnkle # Null THEN {FootPoint("R-ankle", rightAnkle, size)} ELSE {})
           \cup (IF leftFootIndex # Null THEN {FootPoint("L-toe", leftFootIndex, size)} ELSE {})
           \cup (IF rightFootIndex # Null THEN {FootPoint("R-toe", rightFootIndex, size)} ELSE {}),
       !.lines = @ \cup
           (IF leftAnkle # Null /\ leftFootIndex # Null
            THEN {FootConnection("left", leftAnkle, leftFootIndex, size)}
            ELSE IF rightAnkle # Null /\ rightFootIndex # Null
            THEN {FootConnection("right", rightAnkle, rightFootIndex, size)}
            ELSE {})]

DrawFootIndicators(ov, size, leftAnkle, rightAnkle, leftFootIndex, rightFootIndex) ==
    [ov EXCEPT
       !.points = @ \cup
           (IF leftAnkle # Null THEN {FootPoint("L-ankle", leftAnkle, size)} ELSE {})
           \cup (IF rightAnkle # Null THEN {FootPoint("R-ankle", rightAnkle, size)} ELSE {})
           \cup (IF leftFootIndex # Null THEN {FootPoint("L-toe", leftFootIndex, size)} ELSE {})
           \cup (IF rightFootIndex # Null THEN {FootPoint("R-toe", rightFootIndex, size)} ELSE {}),
       !.lines = @ \cup
           (IF rightAnkle # Null /\ rightFootIndex # Null
            THEN {FootConnection("right", rightAnkle, rightFootIndex, size)}
            ELSE IF leftAnkle # Null /\ leftFootIndex # Null
            THEN {FootConnection("left", leftAnkle, leftFootIndex, size)}
            ELSE {})]

DrawPoseDetectionIndicator(ov) == [ov EXCEPT !.hints = @ \cup {"Pose detection active"}]
DrawNoPoseIndicator(ov) == [ov EXCEPT !.hints = @ \cup {"Looking for person..."}]

\* arOverlayContext.clearRect(0, 0, width, height)
ClearRect(ov) == BlankOverlay

\* arRenderer.render(arScene, arCamera): what the 3D canvas then shows
Render(shoe) ==
    IF shoe # NoObject /\ shoe.visible THEN "shoe" ELSE "empty scene"

\* resizeARCanvases: assigning a canvas's width resets its bitmap
ResizeARCanvases(c) ==
    IF c.videoSize[1] # 0 /\ c.videoSize[2] # 0
    THEN [c EXCEPT !.canvasSize = c.videoSize, !.overlay = BlankOverlay,
                   !.canvas3D = "blank"]
    ELSE c

-----------------------------------------------------------------------------
(* onPoseResults on an active session.  c is the part of the state the      *)
(* handler works on: videoSize, canvasSize, overlay, canvas3D, status,      *)
(* shoe (arShoeModel), haveScene (arRenderer && arScene && arCamera) and    *)
(* log (what the call did).                                                 *)

NoLog == [processed |-> FALSE, validated |-> <<>>, placed |-> FALSE, renders |-> 0]

\* the six validated landmarks, by index
Validated(frame) == [i \in FootIndices |-> Validate(frame, i)]

\* the branch hasCompleteRightFoot || hasCompleteLeftFoot
LockedBranch(c, v) ==
    LET shoe == PositionARShoe(c.shoe, c.haveScene, v[LEFT_ANKLE], v[RIGHT_ANKLE],
                               v[LEFT_FOOT_INDEX], v[RIGHT_FOOT_INDEX])
    IN [c EXCEPT
          !.status = StLocked,
          !.overlay = DrawFootIndicators(@, c.canvasSize, v[LEFT_ANKLE], v[RIGHT_ANKLE],
                                         v[LEFT_FOOT_INDEX], v[RIGHT_FOOT_INDEX]),
          !.shoe = shoe,
          !.log.placed = (c.shoe # NoObject /\ c.haveScene)]

\* the branch with a good foot and no complete foot
PartialBranch(c, v) ==
    [c EXCEPT
       !.status = StPartial,
       !.overlay = DrawFootIndicators(@, c.canvasSize, v[LEFT_ANKLE], v[RIGHT_ANKLE],
                                      v[LEFT_FOOT_INDEX], v[RIGHT_FOOT_INDEX])]

\* Always render AR scene when feet detected
RenderScene(c) ==
    IF c.haveScene
    THEN [c EXCEPT !.canvas3D = Render(c.shoe), !.log.renders = @ + 1]
    ELSE c

\* the branch hasGoodLeftFoot || hasGoodRightFoot
GoodFootBranch(c, v) ==
    IF HasCompleteFoot(v[RIGHT_ANKLE], v[RIGHT_FOOT_INDEX])
       \/ HasCompleteFoot(v[LEFT_ANKLE], v[LEFT_FOOT_INDEX])
    THEN RenderScene(LockedBranch(c, v))
    ELSE RenderScene(PartialBranch(c, v))

\* the branch with a pose and no good foot
NoFeetBranch(c) ==
    [c EXCEPT !.status = StPoseFound,
              !.shoe = HideShoe(@),
              !.overlay = DrawPoseDetectionIndicator(@)]

\* NoPoseBranch that holds 'Shoe positioned!' for one more frame
NoPoseBranchDebounced(c) ==
    [c EXCEPT !.status = IF c.status = StLocked THEN c.status ELSE StSearching,
              !.shoe = HideShoe(@),
              !.overlay = DrawNoPoseIndicator(@)]

\* the branch without a valid landmark list
NoPoseBranch(c) ==
    [c EXCEPT !.status = StSearching,
              !.shoe = HideShoe(@),
              !.overlay = DrawNoPoseIndicator(@)]

PoseBranch(c, frame) ==
    LET v == Validated(frame)
        d == [c EXCEPT !.log.validated = v]
    IN  IF HasGoodFoot(v[LEFT_ANKLE], v[LEFT_HEEL], v[LEFT_FOOT_INDEX])
           \/ HasGoodFoot(v[RIGHT_ANKLE], v[RIGHT_HEEL], v[RIGHT_FOOT_INDEX])
        THEN GoodFootBranch(d, v)
        ELSE NoFeetBranch(d)

\* ProcessFrame that draws on top of what the overlay already shows
ProcessFrameOnTop(c, frame) ==
    LET r == ResizeARCanvases(c)
        d == [r EXCEPT !.overlay = c.overlay, !.log = [NoLog EXCEPT !.processed = TRUE]]
    IN  IF HasPose(frame) THEN PoseBranch(d, frame) ELSE NoPoseBranch(d)

\* the handler after its guard: resize, clear, then the branches
ProcessFrame(c, frame) ==
    LET r == ResizeARCanvases(c)
        d == [r EXCEPT !.overlay = ClearRect(@), !.log = [NoLog EXCEPT !.processed = TRUE]]
    IN  IF HasPose(frame) THEN PoseBranch(d, frame) ELSE NoPoseBranch(d)

\* OnPoseResults without the isARMode guard
OnPoseResultsUnguarded(active, c, frame) == ProcessFrame(c, frame)

\* if (!isARMode || !arOverlayContext || !arOverlayCanvas) return;
\* the overlay canvas and its context exist from initAR on
OnPoseResults(active, c, frame) ==
    IF ~active THEN [c EXCEPT !.log = NoLog] ELSE ProcessFrame(c, frame)

-----------------------------------------------------------------------------
(* The state machine *)

VideoSizes == {<<1280, 720>>}       \* width/height of the Camera options
DefaultCanvasSize == <<300, 150>>   \* a canvas element before any resize
Centers == {<<0, 250, -100>>}       \* box.getCenter of the loaded FBX, in thousandths

NoFeeders == [starting |-> 0, idle |-> 0, sending |-> 0]

\* before the model is loaded: the export button is disabled, the controls
\* are enabled and rotate the camera, no export is under way
NoExport ==
    [phase |-> "idle", btnDisabled |-> TRUE, tempSecondShoe |-> FALSE,
     controlsEnabled |-> TRUE, autoRotate |-> TRUE, wasAutoRotating |-> TRUE,
     modelBefore |-> NoObject]

\* the history of a run that has seen nothing; on: the run records its history
NoHistory(on) ==
    [on |-> on, sendFailed |-> FALSE, acquireFailed |-> FALSE,
     prevStatus |-> St("", "none"), prevShoe |-> NoObject,
     prevOverlay |-> BlankOverlay]

\* the module-level state after initAR
SessionInit ==
    /\ isARMode = FALSE
    /\ videoStream = 0
    /\ srcObject = 0
    /\ liveStreams = {}
    /\ acquired = 0
    /\ videoSize = <<0, 0>>
    /\ canvasSize = DefaultCanvasSize
    /\ loadedModel = NoObject
    /\ sceneReady = FALSE
    /\ arShoeModel = NoObject
    /\ status = StInitial
    /\ overlay = BlankOverlay
    /\ canvas3D = "blank"
    /\ awaitingCamera = 0
    /\ metaPending = FALSE
    /\ hungEntries = 0
    /\ resizeTimers = 0
    /\ feeders = NoFeeders
    /\ lastOp = "initAR"
    /\ lastFrame = NoResults
    /\ frameLog = NoLog
    /\ opLog = <<>>
    /\ captureTimers = 0
    /\ export = NoExport

Init == SessionInit /\ hist = NoHistory(FALSE)

\* the part of the state onPoseResults and resizeARCanvases work on
Ctx ==
    [videoSize |-> videoSize, canvasSize |-> canvasSize, overlay |-> overlay,
     canvas3D |-> canvas3D, status |-> status, shoe |-> arShoeModel,
     haveScene |-> sceneReady, log |-> frameLog]

SetCtx(c) ==
    /\ canvasSize' = c.canvasSize
    /\ overlay' = c.overlay
    /\ canvas3D' = c.canvas3D
    /\ status' = c.status
    /\ arShoeModel' = c.shoe
    /\ frameLog' = c.log

\* the history after a handler other than onPoseResults: a rejected pose.send
\* is remembered until exitARMode, a failed camera request for the whole run
Note(h, op) ==
    IF ~h.on THEN h
    ELSE [h EXCEPT
            !.sendFailed = (@ \/ op = "pose.send rejected") /\ op # "exitARMode",
            !.acquireFailed = @ \/ op \in ErrorNames,
            !.prevStatus = St("", "none"),
            !.prevShoe = NoObject,
            !.prevOverlay = BlankOverlay]

\* the history after onPoseResults: the status, the shoe and the overlay the
\* call found
NoteFrame(h, processed, st, shoe, ov) ==
    IF h.on /\ processed
    THEN [h EXCEPT !.prevStatus = st, !.prevShoe = shoe, !.prevOverlay = ov]
    ELSE Note(h, "onPoseResults")

\* a handler other than onPoseResults ran and took the steps log: it is the
\* last one, and it got no frame
DidSteps(op, log) ==
    /\ lastOp' = op
    /\ lastFrame' = NoResults
    /\ frameLog' = NoLog
    /\ hist' = Note(hist, op)
    /\ opLog' = log

Did(op) == DidSteps(op, <<>>)

\* loadModel's onLoad callback: scale 0.36, position.sub(center)
LoadModel(centers) ==
    /\ loadedModel = NoObject
    /\ \E center \in centers :
         loadedModel' = [object |-> TRUE, visible |-> TRUE,
                         position |-> <<-center[1], -center[2], -center[3]>>,
                         rotation |-> [x |-> 0, y |-> 0, z |-> [radians |-> 0]],
                         scale |-> LoadScale]
    /\ export' = [export EXCEPT !.btnDisabled = FALSE]
    /\ Did("loadModel")
    /\ UNCHANGED <<captureTimers, isARMode, videoStream, srcObject, liveStreams, acquired, videoSize,
                   canvasSize, sceneReady, arShoeModel, status, overlay, canvas3D,
                   awaitingCamera, metaPending, hungEntries, resizeTimers, feeders>>

\* enterARMode up to its first await
EnterARMode(maxStreams) ==
    /\ awaitingCamera + acquired < maxStreams
    /\ status' = StRequesting
    /\ awaitingCamera' = awaitingCamera + 1
    /\ Did("enterARMode")
    /\ UNCHANGED <<captureTimers, export, isARMode, videoStream, srcObject, liveStreams, acquired, videoSize,
                   canvasSize, loadedModel, sceneReady, arShoeModel, overlay, canvas3D,
                   metaPending, hungEntries, resizeTimers, feeders>>

\* getUserMedia resolves: videoStream and arVideo.srcObject are set and the
\* call waits for onloadedmetadata, replacing whatever handler was there
GetUserMediaResolve(maxStreams) ==
    /\ awaitingCamera > 0
    /\ acquired < maxStreams
    /\ acquired' = acquired + 1
    /\ liveStreams' = liveStreams \cup {acquired + 1}
    /\ videoStream' = acquired + 1
    /\ srcObject' = acquired + 1
    /\ videoSize' = <<0, 0>>
    /\ awaitingCamera' = awaitingCamera - 1
    /\ hungEntries' = IF metaPending THEN hungEntries + 1 ELSE hungEntries
    /\ metaPending' = TRUE
    /\ Did("getUserMedia resolved")
    /\ UNCHANGED <<captureTimers, export, isARMode, canvasSize, loadedModel, sceneReady, arShoeModel, status,
                   overlay, canvas3D, resizeTimers, feeders>>

\* ErrorStatus with the generic message for every error
ErrorStatusGeneric(name) == StCameraError

\* the status the catch block of enterARMode ends with
ErrorStatus(name) ==
    IF name = "NotAllowedError" THEN StNotAllowed
    ELSE IF name = "NotFoundError" THEN StNotFound
    ELSE StCameraError

\* getUserMedia rejects: the catch block of enterARMode
GetUserMediaReject ==
    /\ awaitingCamera > 0
    /\ \E name \in ErrorNames :
         /\ status' = ErrorStatus(name)
         /\ Did(name)
    /\ awaitingCamera' = awaitingCamera - 1
    /\ UNCHANGED <<captureTimers, export, isARMode, videoStream, srcObject, liveStreams, acquired, videoSize,
                   canvasSize, loadedModel, sceneReady, arShoeModel, overlay, canvas3D,
                   metaPending, hungEntries, resizeTimers, feeders>>

\* setupARScene: the new value of arShoeModel
SetupARScene(model, shoe) ==
    IF model # NoObject THEN [model EXCEPT !.scale = ARInitScale] ELSE shoe

\* arVideo.onloadedmetadata fires and enterARMode runs to its end:
\* setupARScene, showARInterface, status, startPoseDetection, isARMode = true
LoadedMetadata ==
    /\ metaPending
    /\ metaPending' = FALSE
    /\ \E size \in VideoSizes : videoSize' = size
    /\ sceneReady' = TRUE
    /\ arShoeModel' = SetupARScene(loadedModel, arShoeModel)
    /\ resizeTimers' = resizeTimers + 1
    /\ status' = StLookingForFeet
    /\ feeders' = [feeders EXCEPT !.starting = @ + 1]
    /\ isARMode' = TRUE
    /\ Did("enterARMode resumed")
    /\ UNCHANGED <<captureTimers, export, videoStream, srcObject, liveStreams, acquired, canvasSize, loadedModel,
                   overlay, canvas3D, awaitingCamera, hungEntries>>

\* StopTracks that stops nothing
StopTracksNone(live, stream) == live

\* if (videoStream) videoStream.getTracks().forEach(track => track.stop())
StopTracks(live, stream) == IF stream # 0 THEN live \ {stream} ELSE live

\* the statements of exitARMode in the order they run
ExitSteps(stream) ==
    (IF stream # 0 THEN <<"track.stop()", "videoStream = null">> ELSE <<>>)
    \o <<"hideARInterface()", "updateARStatus()", "isARMode = false">>

\* exitARMode
ExitARMode ==
    /\ liveStreams' = StopTracks(liveStreams, videoStream)
    /\ videoStream' = 0
    /\ status' = StReset
    /\ isARMode' = FALSE
    /\ DidSteps("exitARMode", ExitSteps(videoStream))
    /\ UNCHANGED <<captureTimers, export, srcObject, acquired, videoSize, canvasSize, loadedModel, sceneReady,
                   arShoeModel, overlay, canvas3D, awaitingCamera, metaPending,
                   hungEntries, resizeTimers, feeders>>

\* camera.start() succeeds: the Camera begins to call onFrame
CameraStarted ==
    /\ feeders.starting > 0
    /\ feeders' = [feeders EXCEPT !.starting = @ - 1, !.idle = @ + 1]
    /\ Did("camera started")
    /\ UNCHANGED <<captureTimers, export, isARMode, videoStream, srcObject, liveStreams, acquired, videoSize,
                   canvasSize, loadedModel, sceneReady, arShoeModel, status, overlay,
                   canvas3D, awaitingCamera, metaPending, hungEntries, resizeTimers>>

\* camera.start() rejects: the catch handler of startPoseDetection
CameraStartError ==
    /\ feeders.starting > 0
    /\ feeders' = [feeders EXCEPT !.starting = @ - 1]
    /\ status' = StCameraStart
    /\ Did("camera start error")
    /\ UNCHANGED <<captureTimers, export, isARMode, videoStream, srcObject, liveStreams, acquired, videoSize,
                   canvasSize, loadedModel, sceneReady, arShoeModel, overlay, canvas3D,
                   awaitingCamera, metaPending, hungEntries, resizeTimers>>

\* isARMode && arVideo.readyState >= 2 && arVideo.videoWidth > 0
ShouldSend(active, ready, size) == active /\ ready /\ size[1] > 0

\* a Camera calls onFrame: pose.send is issued or the frame is skipped
OnFrame ==
    /\ feeders.idle > 0
    /\ \E ready \in BOOLEAN :
         feeders' = IF ShouldSend(isARMode, ready, videoSize)
                    THEN [feeders EXCEPT !.idle = @ - 1, !.sending = @ + 1]
                    ELSE feeders
    /\ Did("onFrame")
    /\ UNCHANGED <<captureTimers, export, isARMode, videoStream, srcObject, liveStreams, acquired, videoSize,
                   canvasSize, loadedModel, sceneReady, arShoeModel, status, overlay,
                   canvas3D, awaitingCamera, metaPending, hungEntries, resizeTimers>>

\* pose.send delivers its results to onPoseResults and resolves
PoseResults(frames) ==
    /\ feeders.sending > 0
    /\ \E frame \in frames :
         LET c == OnPoseResults(isARMode, Ctx, frame) IN
         /\ SetCtx(c)
         /\ lastFrame' = IF c.log.processed THEN frame ELSE NoResults
         /\ hist' = NoteFrame(hist, c.log.processed, status, arShoeModel, overlay)
    /\ opLog' = <<>>
    /\ feeders' = [feeders EXCEPT !.sending = @ - 1, !.idle = @ + 1]
    /\ lastOp' = "onPoseResults"
    /\ UNCHANGED <<captureTimers, export, isARMode, videoStream, srcObject, liveStreams, acquired, videoSize,
                   loadedModel, sceneReady, awaitingCamera, metaPending, hungEntries,
                   resizeTimers>>

\* PoseSendError that ends the session and the feeder's loop
PoseSendErrorFatal ==
    /\ feeders.sending > 0
    /\ feeders' = [feeders EXCEPT !.sending = @ - 1]
    /\ isARMode' = FALSE
    /\ Did("pose.send rejected")
    /\ UNCHANGED <<captureTimers, export, videoStream, srcObject, liveStreams, acquired, videoSize,
                   canvasSize, loadedModel, sceneReady, arShoeModel, status, overlay,
                   canvas3D, awaitingCamera, metaPending, hungEntries, resizeTimers>>

\* pose.send rejects: the catch block of onFrame logs the error
PoseSendError ==
    /\ feeders.sending > 0
    /\ feeders' = [feeders EXCEPT !.sending = @ - 1, !.idle = @ + 1]
    /\ Did("pose.send rejected")
    /\ UNCHANGED <<captureTimers, export, isARMode, videoStream, srcObject, liveStreams, acquired, videoSize,
                   canvasSize, loadedModel, sceneReady, arShoeModel, status, overlay,
                   canvas3D, awaitingCamera, metaPending, hungEntries, resizeTimers>>

\* the timer of showARInterface: setTimeout(resizeARCanvases, 100)
ResizeTimer ==
    /\ resizeTimers > 0
    /\ resizeTimers' = resizeTimers - 1
    /\ LET c == ResizeARCanvases(Ctx) IN
         /\ canvasSize' = c.canvasSize
         /\ overlay' = c.overlay
         /\ canvas3D' = c.canvas3D
    /\ Did("resize timer")
    /\ UNCHANGED <<captureTimers, export, isARMode, videoStream, srcObject, liveStreams, acquired, videoSize,
                   loadedModel, sceneReady, arShoeModel, status, awaitingCamera,
                   metaPending, hungEntries, feeders>>

\* window 'resize': if (isARMode) resizeARCanvases()
WindowResize ==
    /\ LET c == IF isARMode THEN ResizeARCanvases(Ctx) ELSE Ctx IN
         /\ canvasSize' = c.canvasSize
         /\ overlay' = c.overlay
         /\ canvas3D' = c.canvas3D
    /\ Did("window resize")
    /\ UNCHANGED <<captureTimers, export, isARMode, videoStream, srcObject, liveStreams, acquired, videoSize,
                   loadedModel, sceneReady, arShoeModel, status, awaitingCamera,
                   metaPending, hungEntries, resizeTimers, feeders>>

\* captureARPhoto, from the capture button of the AR interface: the picture
\* is composed and downloaded, the status set, and a timer started
CaptureARPhoto(maxCaptures) ==
    /\ isARMode
    /\ captureTimers < maxCaptures
    /\ status' = StCaptured
    /\ captureTimers' = captureTimers + 1
    /\ Did("captureARPhoto")
    /\ UNCHANGED <<export, isARMode, videoStream, srcObject, liveStreams, acquired,
                   videoSize, canvasSize, loadedModel, sceneReady, arShoeModel, overlay,
                   canvas3D, awaitingCamera, metaPending, hungEntries, resizeTimers,
                   feeders>>

\* the timer of captureARPhoto, 2 s later
CaptureTimer ==
    /\ captureTimers > 0
    /\ captureTimers' = captureTimers - 1
    /\ status' = StFeetDetected
    /\ Did("capture timer")
    /\ UNCHANGED <<export, isARMode, videoStream, srcObject, liveStreams, acquired,
                   videoSize, canvasSize, loadedModel, sceneReady, arShoeModel, overlay,
                   canvas3D, awaitingCamera, metaPending, hungEntries, resizeTimers,
                   feeders>>

\* setExportCameraPosition: the loaded model as the left shoe of the pair
ExportPose(model) ==
    [model EXCEPT !.scale = ExportScale,
                  !.position = <<-ExportOffsetX, 0, 0>>,
                  !.rotation.y = -ExportAngle]

\* restoreCameraPosition: position.set(0, 0, 0), rotation.y = 0, scale 0.36
RestorePose(model) ==
    [model EXCEPT !.position = <<0, 0, 0>>,
                  !.rotation.y = 0,
                  !.scale = LoadScale]

\* exportToPNG, from the export button (enabled once the model is loaded,
\* hidden by the AR interface), up to its first timer
ExportToPNG ==
    /\ ~export.btnDisabled
    /\ ~isARMode
    /\ loadedModel # NoObject
    /\ export' = [export EXCEPT !.phase = "previewing",
                                !.btnDisabled = TRUE,
                                !.wasAutoRotating = export.autoRotate,
                                !.autoRotate = FALSE,
                                !.tempSecondShoe = TRUE,
                                !.controlsEnabled = FALSE,
                                !.modelBefore = loadedModel]
    /\ loadedModel' = ExportPose(loadedModel)
    /\ Did("exportToPNG")
    /\ UNCHANGED <<captureTimers, isARMode, videoStream, srcObject, liveStreams,
                   acquired, videoSize, canvasSize, sceneReady, arShoeModel, status,
                   overlay, canvas3D, awaitingCamera, metaPending, hungEntries,
                   resizeTimers, feeders>>

\* the first timer of exportToPNG: render, preview, and start the second
ExportPreviewTimer ==
    /\ export.phase = "previewing"
    /\ export' = [export EXCEPT !.phase = "restoring"]
    /\ Did("export preview")
    /\ UNCHANGED <<captureTimers, isARMode, videoStream, srcObject, liveStreams,
                   acquired, videoSize, canvasSize, loadedModel, sceneReady, arShoeModel,
                   status, overlay, canvas3D, awaitingCamera, metaPending, hungEntries,
                   resizeTimers, feeders>>

\* the second timer: restoreCameraPosition, autoRotate and the button
ExportRestoreTimer ==
    /\ export.phase = "restoring"
    /\ export' = [export EXCEPT !.phase = "idle",
                                !.tempSecondShoe = FALSE,
                                !.controlsEnabled = TRUE,
                                !.autoRotate = export.wasAutoRotating,
                                !.btnDisabled = FALSE]
    /\ loadedModel' = RestorePose(loadedModel)
    /\ Did("export restored")
    /\ UNCHANGED <<captureTimers, isARMode, videoStream, srcObject, liveStreams,
                   acquired, videoSize, canvasSize, sceneReady, arShoeModel, status,
                   overlay, canvas3D, awaitingCamera, metaPending, hungEntries,
                   resizeTimers, feeders>>

\* the handlers of the AR session, for a bound on the streams handed out,
\* a set of frames the pose engine may deliver and the centers a model may have
SessionNext(maxStreams, frames, centers) ==
    \/ LoadModel(centers)
    \/ EnterARMode(maxStreams)
    \/ GetUserMediaResolve(maxStreams)
    \/ GetUserMediaReject
    \/ LoadedMetadata
    \/ ExitARMode
    \/ CameraStarted
    \/ CameraStartError
    \/ OnFrame
    \/ PoseResults(frames)
    \/ PoseSendError
    \/ ResizeTimer
    \/ WindowResize

\* Sessions that are entered, left and entered again, on a sample of frames:
\* one frame of each tracking status, and a complete foot of either side
SampleFrames ==
    {NoResults,
     MkFrame(MinLandmarks, {}, 1),
     MkFrame(MinLandmarks, {RIGHT_ANKLE, RIGHT_HEEL}, 1),
     MkFrame(MinLandmarks, {RIGHT_ANKLE, RIGHT_FOOT_INDEX}, 1),
     MkFrame(MinLandmarks, {LEFT_ANKLE, LEFT_FOOT_INDEX}, 2)}

Next == SessionNext(MaxStreams, SampleFrames, Centers)

Spec == Init /\ [][Next]_vars

\* One session on every frame of Frames
FrameNext == SessionNext(FrameStreams, Frames, Centers)

FrameSpec == Init /\ [][FrameNext]_vars

\* One session that records its history, on frames of every tracking status
\* with a complete foot of either side in both layouts
HistoryFrames ==
    {NoResults,
     MkFrame(MinLandmarks, {}, 1),
     MkFrame(MinLandmarks, {LEFT_ANKLE, LEFT_HEEL}, 1),
     MkFrame(MinLandmarks, {RIGHT_ANKLE, RIGHT_FOOT_INDEX}, 1),
     MkFrame(MinLandmarks, {LEFT_ANKLE, LEFT_FOOT_INDEX}, 1),
     MkFrame(MinLandmarks, {RIGHT_ANKLE, RIGHT_FOOT_INDEX}, 2),
     MkFrame(MinLandmarks, {LEFT_ANKLE, LEFT_FOOT_INDEX}, 2),
     MkFrame(MinLandmarks, FootIndices, 1)}

HistoryInit == SessionInit /\ hist = NoHistory(TRUE)

HistoryNext == SessionNext(FrameStreams, HistoryFrames, Centers)

HistorySpec == HistoryInit /\ [][HistoryNext]_vars

\* One session in which pictures are captured
CaptureFrames ==
    {NoResults,
     MkFrame(MinLandmarks, {RIGHT_ANKLE, RIGHT_HEEL}, 1),
     MkFrame(MinLandmarks, {RIGHT_ANKLE, RIGHT_FOOT_INDEX}, 1)}

CaptureNext ==
    \/ SessionNext(FrameStreams, CaptureFrames, Centers)
    \/ CaptureARPhoto(MaxCaptures)
    \/ CaptureTimer

CaptureSpec == Init /\ [][CaptureNext]_vars

\* One session around exports of the still image
ExportFrames == {NoResults, MkFrame(MinLandmarks, {RIGHT_ANKLE, RIGHT_FOOT_INDEX}, 1)}

ExportNext ==
    \/ SessionNext(FrameStreams, ExportFrames, Centers)
    \/ ExportToPNG
    \/ ExportPreviewTimer
    \/ ExportRestoreTimer

ExportSpec == Init /\ [][ExportNext]_vars

\* positionARShoe on a grid of feet: one ankle and one toe of a side are
\* detected, the toe dx, dy hundredths from the ankle
GridOffsets == {-8, -7, -5, -2, -1, 0, 1, 2, 3, 5, 7, 8}
GridAnkles == {<<50, 60>>}

GridFrame(ankleIndex, toeIndex, ankle, dx, dy) ==
    [len |-> MinLandmarks,
     lm  |-> [i \in FootIndices |->
                IF i = ankleIndex
                THEN [x |-> ankle[1], y |-> ankle[2], visibility |-> 9]
                ELSE IF i = toeIndex
                THEN [x |-> ankle[1] + dx, y |-> ankle[2] + dy, visibility |-> 8]
                ELSE [x |-> 0, y |-> 0, visibility |-> 0]]]

GridFrames ==
    {GridFrame(i[1], i[2], ankle, dx, dy) :
        i \in {<<LEFT_ANKLE, LEFT_FOOT_INDEX>>, <<RIGHT_ANKLE, RIGHT_FOOT_INDEX>>},
        ankle \in GridAnkles, dx \in GridOffsets, dy \in GridOffsets}

\* an active session with a loaded model whose first pose.send is in flight
PlacementInit ==
    /\ isARMode = TRUE
    /\ videoStream = 1
    /\ srcObject = 1
    /\ liveStreams = {1}
    /\ acquired = 1
    /\ videoSize \in VideoSizes
    /\ canvasSize = DefaultCanvasSize
    /\ \E center \in Centers :
         loadedModel = [object |-> TRUE, visible |-> TRUE,
                        position |-> <<-center[1], -center[2], -center[3]>>,
                        rotation |-> [x |-> 0, y |-> 0, z |-> [radians |-> 0]],
                        scale |-> LoadScale]
    /\ sceneReady = TRUE
    /\ arShoeModel = SetupARScene(loadedModel, NoObject)
    /\ status = StLookingForFeet
    /\ overlay = BlankOverlay
    /\ canvas3D = "blank"
    /\ awaitingCamera = 0
    /\ metaPending = FALSE
    /\ hungEntries = 0
    /\ resizeTimers = 1
    /\ feeders = [starting |-> 0, idle |-> 0, sending |-> 1]
    /\ lastOp = "onFrame"
    /\ lastFrame = NoResults
    /\ frameLog = NoLog
    /\ hist = NoHistory(FALSE)
    /\ opLog = <<>>
    /\ captureTimers = 0
    /\ export = [NoExport EXCEPT !.btnDisabled = FALSE]

PlacementNext ==
    \/ OnFrame
    \/ PoseResults(GridFrames)

PlacementSpec == PlacementInit /\ [][PlacementNext]_vars

-----------------------------------------------------------------------------
(* The claims.  What a claim says of a frame is read off the frame itself:   *)
(* a landmark counts as validated when the list holds it with a visibility   *)
(* above 0.5.                                                                *)

LeftSide == [ankle |-> LEFT_ANKLE, heel |-> LEFT_HEEL, toe |-> LEFT_FOOT_INDEX]
RightSide == [ankle |-> RIGHT_ANKLE, heel |-> RIGHT_HEEL, toe |-> RIGHT_FOOT_INDEX]

ListMissing(f) == f.len = -1
ListValid(f) == ~ListMissing(f) /\ ~(f.len < 33)
SeenIn(f, i) ==
    /\ i \in DOMAIN f.lm
    /\ "visibility" \in DOMAIN f.lm[i]
    /\ f.lm[i].visibility * 10 > 50
SeenCount(f, side) == Cardinality({k \in {"ankle", "heel", "toe"} : SeenIn(f, side[k])})
GoodSide(f, side) == SeenCount(f, side) >= 2
CompleteSide(f, side) == SeenIn(f, side.ankle) /\ SeenIn(f, side.toe)
SomeGood(f) == GoodSide(f, LeftSide) \/ GoodSide(f, RightSide)
SomeComplete(f) == CompleteSide(f, LeftSide) \/ CompleteSide(f, RightSide)

\* onPoseResults has just processed a frame of an active session
Processed == lastOp = "onPoseResults" /\ frameLog.processed
ShoeVisible == arShoeModel # NoObject /\ arShoeModel.visible
ShoeHidden == arShoeModel # NoObject => ~arShoeModel.visible

\* C1 (as claimed): after a processed frame the shoe is visible only if that
\* frame has a complete foot; a frame with a good but incomplete foot leaves
\* the shoe hidden whatever came before.
C1_VisibleOnlyIfComplete ==
    (Processed /\ ShoeVisible) => SomeComplete(lastFrame)

\* C2: the status after a processed frame is Searching for a missing or short
\* list, PoseFound for a valid list without a good side, FeetPartial for a
\* good side without a complete side, FeetLocked exactly when a side of a
\* valid list is complete.
ExpectedStatus(f) ==
    IF ListMissing(f) \/ f.len < 33 THEN StSearching
    ELSE IF ~SomeGood(f) THEN StPoseFound
    ELSE IF ~SomeComplete(f) THEN StPartial
    ELSE StLocked

C2_StatusDerivation ==
    Processed =>
        /\ status = ExpectedStatus(lastFrame)
        /\ (status = StLocked <=> (ListValid(lastFrame) /\ SomeComplete(lastFrame)))

C2_Witness ==
    /\ Processed
    /\ status = StLocked
    /\ SeenCount(lastFrame, LeftSide) = 2
    /\ SeenCount(lastFrame, RightSide) = 1

\* C3: while isARMode is false, onPoseResults changes neither status, overlay,
\* canvas sizes nor the shoe and renders nothing, and onFrame sends no frame
\* to the pose engine.
C3_InactiveCallbacksNoOp ==
    [][/\ (~isARMode /\ lastOp' = "onPoseResults") =>
            /\ UNCHANGED <<status, overlay, canvasSize, canvas3D, arShoeModel>>
            /\ frameLog'.renders = 0
            /\ ~frameLog'.processed
       /\ (~isARMode /\ lastOp' = "onFrame") => feeders'.sending = feeders.sending
      ]_vars

\* a result of a request that was in flight when exitARMode ran has arrived
C3_Witness ==
    /\ lastOp = "onPoseResults"
    /\ ~isARMode
    /\ sceneReady
    /\ status = StReset

\* C4: exitARMode, called with no entry in flight, leaves the session
\* inactive, the held stream stopped and released, and the status reset to
\* 'Looking for feet...' with no category.
C4_ExitReleasesStream ==
    [][(lastOp' = "exitARMode" /\ awaitingCamera = 0 /\ ~metaPending) =>
            /\ ~isARMode'
            /\ (videoStream # 0 => videoStream \notin liveStreams')
            /\ videoStream' = 0
            /\ status'.message = "Looking for feet..."
            /\ status'.type \notin {"success", "error"}
      ]_vars

C4_Witness ==
    /\ lastOp = "exitARMode"
    /\ awaitingCamera = 0 /\ ~metaPending
    /\ sceneReady
    /\ acquired > 0
    /\ liveStreams = {}

\* C5 (as claimed): after exitARMode the shoe is hidden and the overlay and
\* the 3D canvas are cleared.
C5_ExitHidesAndClears ==
    lastOp = "exitARMode" =>
        /\ ShoeHidden
        /\ overlay = BlankOverlay
        /\ canvas3D = "blank"

\* C6: in a valid list each of the landmarks 27..32 is validated to itself
\* when its visibility is above 0.5 and to absent when it is 0.5 or less or
\* has no value.
C6_VisibilityThreshold ==
    (Processed /\ ListValid(lastFrame)) =>
        \A i \in 27..32 :
            LET l == lastFrame.lm[i] IN
            frameLog.validated[i] =
                IF "visibility" \in DOMAIN l /\ l.visibility * 10 > 50 THEN l ELSE Null

\* the right ankle at exactly 0.5 is absent, the right toe above it is kept
C6_Witness ==
    /\ Processed
    /\ ListValid(lastFrame)
    /\ "visibility" \in DOMAIN lastFrame.lm[28]
    /\ lastFrame.lm[28].visibility * 10 = 50
    /\ frameLog.validated[28] = Null
    /\ frameLog.validated[32] = lastFrame.lm[32]
    /\ frameLog.validated[32] # Null

\* the rotation a placement from the ankle and toe of a side leaves
UsesSide(f, side) ==
    arShoeModel.rotation.z =
        [negAtan2 |-> <<f.lm[side.toe].y - f.lm[side.ankle].y,
                        f.lm[side.toe].x - f.lm[side.ankle].x>>]

\* C7: a placement uses the right ankle and toe, unmirrored, whenever the
\* right side is complete, the left ones, mirrored, only when the left side is
\* complete and the right is not; with no complete side position, rotation
\* and scale stay as they were.
C7_PrefersRightFoot ==
    /\ [](  (Processed /\ ListValid(lastFrame) /\ arShoeModel # NoObject) =>
              /\ CompleteSide(lastFrame, RightSide) =>
                    /\ UsesSide(lastFrame, RightSide)
                    /\ arShoeModel.rotation.y = 0
              /\ (CompleteSide(lastFrame, LeftSide) /\ ~CompleteSide(lastFrame, RightSide)) =>
                    /\ UsesSide(lastFrame, LeftSide)
                    /\ arShoeModel.rotation.y = PiMilli  )
    /\ [][ (/\ lastOp' = "onPoseResults"
            /\ frameLog'.processed
            /\ ~(ListValid(lastFrame') /\ SomeComplete(lastFrame'))
            /\ arShoeModel # NoObject) =>
               /\ arShoeModel'.position = arShoeModel.position
               /\ arShoeModel'.rotation = arShoeModel.rotation
               /\ arShoeModel'.scale = arShoeModel.scale
               /\ ~frameLog'.placed ]_vars

\* both feet are complete and the right one was used
C7_Witness ==
    /\ Processed
    /\ ListValid(lastFrame)
    /\ CompleteSide(lastFrame, RightSide)
    /\ CompleteSide(lastFrame, LeftSide)
    /\ arShoeModel # NoObject
    /\ UsesSide(lastFrame, RightSide)
    /\ ~UsesSide(lastFrame, LeftSide)

\* C8: a frame without a landmark list, or with fewer than 33 entries, takes
\* the no-pose path: status Searching, shoe hidden, the no-pose hint and no
\* marker drawn, no landmark validated, nothing placed.
C8_ShortListFailsClosed ==
    (Processed /\ (ListMissing(lastFrame) \/ lastFrame.len < 33)) =>
        /\ status = StSearching
        /\ ShoeHidden
        /\ overlay = [points |-> {}, lines |-> {}, hints |-> {"Looking for person..."}]
        /\ frameLog.validated = <<>>
        /\ ~frameLog.placed
        /\ frameLog.renders = 0

\* a list of 32 entries whose entries 27..31 are all well visible
C8_Witness ==
    /\ Processed
    /\ lastFrame.len = 32
    /\ \A i \in 27..31 : SeenIn(lastFrame, i)
    /\ arShoeModel # NoObject
    /\ status = StSearching

\* C9 (as claimed): a list longer than 33 entries is treated like a missing
\* list: status Searching, shoe hidden, nothing placed.
C9_LongListIsNoPose ==
    (Processed /\ lastFrame.len > 33) =>
        /\ status = StSearching
        /\ ShoeHidden
        /\ ~frameLog.placed

\* C10 (as claimed): after pose.send has rejected, the status is a searching
\* status ('Looking for pose...', or the 'Looking for feet...' of a session
\* that has not processed a frame yet) and the shoe is hidden.
C10_SendErrorIsSearching ==
    lastOp = "pose.send rejected" =>
        /\ status \in {StSearching, StLookingForFeet}
        /\ ShoeHidden

\* C11: a rejected pose.send leaves isARMode and the camera stream as they
\* were and returns the feeder to its loop; in a session that has seen a
\* rejection the feeder's next onFrame can submit again, and every frame
\* processed afterwards gets the status its landmarks derive.
C11_SendErrorKeepsSession ==
    /\ [][lastOp' = "pose.send rejected" =>
             /\ isARMode' = isARMode
             /\ videoStream' = videoStream
             /\ liveStreams' = liveStreams
             /\ feeders'.idle = feeders.idle + 1
         ]_vars
    /\ []((hist.sendFailed /\ isARMode /\ feeders.idle > 0 /\ videoSize[1] > 0) =>
             ENABLED (OnFrame /\ feeders'.sending = feeders.sending + 1))
    /\ []((hist.sendFailed /\ Processed) => status = ExpectedStatus(lastFrame))

\* a frame with a complete foot was processed after a rejected pose.send
C11_Witness ==
    /\ hist.sendFailed
    /\ Processed
    /\ isARMode
    /\ videoStream \in liveStreams
    /\ status = StLocked
    /\ ShoeVisible

\* the message enterARMode owes to a failure of the camera request
AcquisitionMessage(name) ==
    CASE name = "NotAllowedError" -> "Camera permission denied. Please enable camera access."
      [] name = "NotFoundError" -> "No camera found. Please connect a camera."
      [] OTHER -> "Camera error. Please try again."

\* C12: when the camera request of enterARMode fails, isARMode stays as it
\* was (false), no feeder is started and no stream stored, the status is an
\* error with the message of the failure's kind; enterARMode can be called
\* again, and an entry that completes after a failure activates the session.
C12_AcquisitionErrorRecoverable ==
    /\ [][\A name \in {"NotAllowedError", "NotFoundError", "OverconstrainedError"} :
             lastOp' = name =>
                /\ isARMode' = isARMode
                /\ feeders' = feeders
                /\ videoStream' = videoStream
                /\ status'.type = "error"
                /\ status'.message = AcquisitionMessage(name)
         ]_vars
    /\ [](lastOp \in {"NotAllowedError", "NotFoundError", "OverconstrainedError"} =>
             ENABLED EnterARMode(FrameStreams))
    /\ [][(hist.acquireFailed /\ lastOp' = "enterARMode resumed") =>
             /\ isARMode'
             /\ feeders'.starting = feeders.starting + 1
             /\ status' = St("Looking for feet...", "detecting")
         ]_vars

\* a session entered after a denied camera request
C12_Witness ==
    /\ hist.acquireFailed
    /\ lastOp = "enterARMode resumed"
    /\ isARMode
    /\ videoStream \in liveStreams
    /\ status.type # "error"

\* an object no frame has touched: hidden, at the origin, unrotated
FreshShoe ==
    [object |-> TRUE, visible |-> FALSE, position |-> <<0, 0, 0>>,
     rotation |-> [x |-> 0, y |-> 0, z |-> [radians |-> 0]], scale |-> ARInitScale]

\* what positionARShoe makes of an untouched object on the landmarks of f
PlacementOf(f) ==
    LET pick(i) == IF SeenIn(f, i) THEN f.lm[i] ELSE Null IN
    PositionARShoe(FreshShoe, TRUE, pick(LEFT_ANKLE), pick(RIGHT_ANKLE),
                   pick(LEFT_FOOT_INDEX), pick(RIGHT_FOOT_INDEX))

\* C13: after a frame with a complete foot the shoe's position, rotation,
\* scale and visibility are those the frame's landmarks give an untouched
\* object, whatever the frames before have left on the shoe.
C13_PlacementHasNoMemory ==
    (Processed /\ ListValid(lastFrame) /\ SomeComplete(lastFrame)
       /\ arShoeModel # NoObject) =>
        arShoeModel = PlacementOf(lastFrame)

\* a right-foot frame processed on a shoe that a left-foot frame had
\* placed and mirrored
C13_Witness ==
    /\ Processed
    /\ CompleteSide(lastFrame, RightSide)
    /\ hist.prevShoe # NoObject
    /\ hist.prevShoe.visible
    /\ hist.prevShoe.rotation.y = PiMilli
    /\ hist.prevStatus = StLocked
    /\ arShoeModel = PlacementOf(lastFrame)
    /\ arShoeModel.rotation.y = 0
    /\ arShoeModel.scale # hist.prevShoe.scale

\* the ankle and toe a placement on f uses: the right ones when complete
PlacedSide(f) == IF CompleteSide(f, RightSide) THEN RightSide ELSE LeftSide
PlacedAnkle(f) == f.lm[PlacedSide(f).ankle]
PlacedToe(f) == f.lm[PlacedSide(f).toe]

\* onPoseResults has just placed the shoe on a complete foot of lastFrame
Placed ==
    /\ Processed
    /\ ListValid(lastFrame)
    /\ SomeComplete(lastFrame)
    /\ frameLog.placed

\* the squared ankle-to-toe distance of f, in 1e-8
SquaredLength(f) ==
    LET dx == PlacedToe(f).x - PlacedAnkle(f).x
        dy == PlacedToe(f).y - PlacedAnkle(f).y
    IN  10000 * (dx * dx + dy * dy)

\* s, in 1e-4, is clamp(2 * sqrt(n), 0.05, 0.15) with the root rounded down
IsClampedScale(s, n) ==
    IF n < 251 * 251 THEN s = 500
    ELSE IF n >= 750 * 750 THEN s = 1500
    ELSE /\ s % 2 = 0
         /\ (s \div 2) * (s \div 2) <= n
         /\ n < (s \div 2 + 1) * (s \div 2 + 1)

\* C14: the scale a placement sets is clamp(2 * footLength, 0.05, 0.15): it
\* lies in [0.05, 0.15], and is 0.05 for an ankle and toe at the same point.
C14_ScaleClamped ==
    Placed =>
        /\ arShoeModel.scale >= 500
        /\ arShoeModel.scale <= 1500
        /\ IsClampedScale(arShoeModel.scale, SquaredLength(lastFrame))
        /\ (SquaredLength(lastFrame) = 0 => arShoeModel.scale = 500)

\* a placement on a foot of length zero
C14_Witness ==
    /\ Placed
    /\ PlacedAnkle(lastFrame).x = PlacedToe(lastFrame).x
    /\ PlacedAnkle(lastFrame).y = PlacedToe(lastFrame).y
    /\ arShoeModel.scale = 500

\* -atan2(dy, dx) of the ankle-to-toe vector a placement on f uses
PlacedAngle(f) ==
    [negAtan2 |-> <<PlacedToe(f).y - PlacedAnkle(f).y, PlacedToe(f).x - PlacedAnkle(f).x>>]

\* C15: a placement from a left foot leaves the Z rotation of that foot and
\* a rotation of PI (180 degrees) about Y; a placement from a right foot
\* leaves the Z rotation of that foot and no rotation about Y, whatever the
\* frame before left.
C15_MirrorFollowsSide ==
    Placed =>
        /\ arShoeModel.rotation.x = 0
        /\ arShoeModel.rotation.z = PlacedAngle(lastFrame)
        /\ (PlacedSide(lastFrame) = LeftSide => arShoeModel.rotation.y = 3142)
        /\ (PlacedSide(lastFrame) = RightSide => arShoeModel.rotation.y = 0)

\* the right foot placed unmirrored right after the left foot
\* (0.3, 0.5)-(0.4, 0.5) was placed mirrored
C15_Witness ==
    /\ Placed
    /\ PlacedSide(lastFrame) = RightSide
    /\ arShoeModel.rotation.y = 0
    /\ arShoeModel.rotation.z = PlacedAngle(lastFrame)
    /\ hist.prevShoe # NoObject
    /\ hist.prevShoe.rotation.y = 3142
    /\ hist.prevShoe.rotation.z = [negAtan2 |-> <<0, 10>>]

\* the ankle/toe midpoint of f mapped to object space, in thousandths:
\* ((cx - 0.5) * 6, -(cy - 0.5) * 6)
MappedCenter(f) ==
    <<6 * (5 * (PlacedAnkle(f).x + PlacedToe(f).x) - 500),
      -(6 * (5 * (PlacedAnkle(f).y + PlacedToe(f).y) - 500))>>

\* the ankle-to-toe vector of f in the same mapped space, in thousandths:
\* scaled by 6, Y inverted
MappedVector(f) ==
    <<6 * 10 * (PlacedToe(f).x - PlacedAnkle(f).x),
      -(6 * 10 * (PlacedToe(f).y - PlacedAnkle(f).y))>>

\* C16 (as claimed): the position of a placement is the mapped midpoint plus
\* 0.2 of the ankle-to-toe vector taken in the mapped space, at depth -2.
C16_PositionInMappedSpace ==
    Placed =>
        arShoeModel.position =
            <<MappedCenter(lastFrame)[1] + (2 * MappedVector(lastFrame)[1]) \div 10,
              MappedCenter(lastFrame)[2] + (2 * MappedVector(lastFrame)[2]) \div 10,
              -2000>>

\* the frame of the end-to-end scenario: right ankle (0.5, 0.6, 0.9), right
\* toe (0.55, 0.62, 0.8), no other foot landmark detected
IsScenario(f) ==
    /\ ListValid(f)
    /\ f.lm[28] = [x |-> 50, y |-> 60, visibility |-> 9]
    /\ f.lm[32] = [x |-> 55, y |-> 62, visibility |-> 8]
    /\ \A i \in {27, 29, 30, 31} : ~SeenIn(f, i)

\* C17: the scenario frame gives the status FeetLocked and leaves the shoe
\* of a session that has one visible, rotated by -atan2(0.02, 0.05) about Z, not mirrored, with the
\* scale 2 * sqrt(0.05^2 + 0.02^2) = 0.1077 (to 1e-4), inside the clamp.
C17_EndToEnd ==
    (Processed /\ IsScenario(lastFrame)) =>
        /\ status = St("Shoe positioned! Try moving your foot", "success")
        /\ arShoeModel # NoObject =>
              /\ arShoeModel.visible
              /\ arShoeModel.rotation.z = [negAtan2 |-> <<2, 5>>]
              /\ arShoeModel.rotation.y = 0
              /\ arShoeModel.scale \in 1076..1078
              /\ arShoeModel.scale > 500 /\ arShoeModel.scale < 1500

\* the scenario frame was placed and the shoe rendered
C17_Witness ==
    /\ Processed
    /\ IsScenario(lastFrame)
    /\ lastFrame.len = 33
    /\ frameLog.placed
    /\ ShoeVisible
    /\ arShoeModel.scale = 1076
    /\ canvas3D = "shoe"

\* the four tracking statuses: Searching, PoseFound, FeetPartial, FeetLocked
TrackingStatuses == {StSearching, StPoseFound, StPartial, StLocked}

\* C18: whatever status an active session shows, one processed frame puts
\* it in the status that frame's landmarks derive, and from every active
\* state with a request in flight each of the four tracking statuses is one
\* frame away.
C18_NoHysteresis ==
    /\ [][(lastOp' = "onPoseResults" /\ frameLog'.processed) =>
             status' = ExpectedStatus(lastFrame')]_vars
    /\ []((isARMode /\ feeders.sending > 0) =>
             /\ ENABLED PoseResults(HistoryFrames)
             /\ \A s \in TrackingStatuses :
                    \E f \in HistoryFrames : OnPoseResults(isARMode, Ctx, f).status = s)
    /\ []((Processed /\ hist.prevStatus \in TrackingStatuses) =>
             status = ExpectedStatus(lastFrame))

\* one frame took the session from FeetLocked to Searching
C18_Witness ==
    /\ Processed
    /\ hist.prevStatus = StLocked
    /\ status = StSearching
    /\ ListMissing(lastFrame)

\* C19 (as claimed): in an active session at most one pose.send is in
\* flight, also after the session was left and entered again.
C19_OneRequestInFlight ==
    isARMode => feeders.sending <= 1

\* C20 (as claimed): an enterARMode call that resumes right after an
\* exitARMode that ran while it was suspended stores no stream, starts no
\* feeder and leaves the session inactive.
C20_ExitCancelsPendingEntry ==
    [][/\ (lastOp = "exitARMode" /\ lastOp' = "getUserMedia resolved") =>
            /\ videoStream' = 0
            /\ ~isARMode'
       /\ (lastOp = "exitARMode" /\ lastOp' = "enterARMode resumed") =>
            /\ ~isARMode'
            /\ feeders' = feeders
      ]_vars

\* the places of step in a handler's log
Places(log, step) == {i \in DOMAIN log : log[i] = step}

\* C21 (as claimed): an exitARMode that releases a stream marks the session
\* inactive first, releases the stream after that, and clears the drawing
\* surfaces after the release.
C21_TeardownOrder ==
    (lastOp = "exitARMode" /\ Places(opLog, "videoStream = null") # {}) =>
        /\ \E i \in Places(opLog, "isARMode = false") :
              \A j \in Places(opLog, "track.stop()") \cup Places(opLog, "videoStream = null") :
                  i < j
        /\ \E k \in DOMAIN opLog :
              /\ opLog[k] \in {"clearRect()", "arRenderer.clear()"}
              /\ \A j \in Places(opLog, "videoStream = null") : j < k

\* C22 (as claimed): captureARPhoto and its timer only read the status: the
\* status a processed frame has set stays until the next frame, and the
\* status exitARMode has reset stays until the next entry.
C22_CaptureOnlyReadsStatus ==
    [][lastOp' \in {"captureARPhoto", "capture timer"} =>
          /\ status' = status
          /\ (~isARMode => status' = St("Looking for feet...", ""))
      ]_vars

\* C23 (as claimed): a processed frame places the shoe and triggers one render
\* of the AR scene exactly when it has a complete foot; a frame without a
\* complete foot (partial, pose only, no pose) places nothing and triggers no
\* render, and no frame triggers more than one render.
C23_RenderOnlyWhenComplete ==
    (Processed /\ arShoeModel # NoObject) =>
        /\ frameLog.placed = (ExpectedStatus(lastFrame) = StLocked)
        /\ frameLog.renders = (IF ExpectedStatus(lastFrame) = StLocked THEN 1 ELSE 0)

\* what drawing the frame f alone leaves on a blank overlay of the given size
DrawnAlone(f, v, size) ==
    IF ExpectedStatus(f) = StSearching THEN DrawNoPoseIndicator(BlankOverlay)
    ELSE IF ExpectedStatus(f) = StPoseFound THEN DrawPoseDetectionIndicator(BlankOverlay)
    ELSE DrawFootIndicators(BlankOverlay, size, v[LEFT_ANKLE], v[RIGHT_ANKLE],
                            v[LEFT_FOOT_INDEX], v[RIGHT_FOOT_INDEX])

\* C24: every processed frame clears the overlay before it draws: after a
\* processed frame the overlay holds the markers, line or hint of that frame
\* alone, whatever the overlay showed before.
C24_OverlayShowsLastFrameOnly ==
    Processed => overlay = DrawnAlone(lastFrame, frameLog.validated, canvasSize)

\* a frame without a pose processed on an overlay that showed the markers and
\* the line of the frame before: only the hint is left
C24_Witness ==
    /\ Processed
    /\ hist.prevOverlay.points # {}
    /\ hist.prevOverlay.lines # {}
    /\ overlay = [points |-> {}, lines |-> {}, hints |-> {"Looking for person..."}]

\* the dashed line of the side positionARShoe selects in the frame f
LineOfPlacedSide(f, size) ==
    FootConnection(IF CompleteSide(f, RightSide) THEN "right" ELSE "left",
                   PlacedAnkle(f), PlacedToe(f), size)

\* C25: a processed frame draws at most one dashed ankle-toe line, and it is
\* the line of the side positionARShoe selects: the right side when the right
\* foot is complete, otherwise the left side when the left foot is complete,
\* and no line when no side is complete.
C25_LineFollowsPlacedSide ==
    Processed =>
        /\ Cardinality(overlay.lines) <= 1
        /\ overlay.lines = (IF ExpectedStatus(lastFrame) = StLocked
                            THEN {LineOfPlacedSide(lastFrame, canvasSize)}
                            ELSE {})
        /\ frameLog.placed => UsesSide(lastFrame, PlacedSide(lastFrame))

\* both feet complete and pointing differently: the line and the shoe are on
\* the right foot
C25_Witness ==
    /\ Processed
    /\ CompleteSide(lastFrame, LeftSide)
    /\ CompleteSide(lastFrame, RightSide)
    /\ frameLog.placed
    /\ ~UsesSide(lastFrame, LeftSide)
    /\ \E l \in overlay.lines : l.side = "right"

\* C26 (as claimed): after a processed frame that sets the status 'Shoe
\* positioned!' the AR scene has a shoe, the shoe is visible and it has the
\* transform computed from that frame, also in a session entered before the
\* shoe model was loaded.
C26_LockedMeansShoeShown ==
    (Processed /\ status = StLocked) =>
        /\ arShoeModel # NoObject
        /\ arShoeModel.visible
        /\ frameLog.placed
        /\ UsesSide(lastFrame, PlacedSide(lastFrame))

\* C27 (as claimed): no camera stream is leaked: whatever enterARMode and
\* exitARMode calls came before, also overlapping ones, right after an
\* exitARMode with no entry waiting for the camera or for the video's metadata
\* every stream getUserMedia has handed out has had its tracks stopped.
C27_NoStreamLeaked ==
    (lastOp = "exitARMode" /\ awaitingCamera = 0 /\ ~metaPending) => liveStreams = {}

\* C28 (as claimed): an active session holds a camera stream, and the tracks
\* of that stream have not been stopped.
C28_ActiveHoldsLiveStream ==
    isARMode => (videoStream # 0 /\ videoStream \in liveStreams)

\* C29 (as claimed): when the second timer of exportToPNG has fired, the
\* loaded model has the position (the centered one of loadModel), the Y
\* rotation and the scale it had before the export, the temporary second shoe
\* is out of the scene, the orbit controls are enabled, auto-rotate has the
\* value it had before and the export button is enabled.
C29_ExportRoundTrips ==
    lastOp = "export restored" =>
        /\ loadedModel.position = export.modelBefore.position
        /\ loadedModel.rotation.y = export.modelBefore.rotation.y
        /\ loadedModel.scale = export.modelBefore.scale
        /\ ~export.tempSecondShoe
        /\ export.controlsEnabled
        /\ export.autoRotate = export.wasAutoRotating
        /\ ~export.btnDisabled

====
